---- MODULE Spec2Model ----
(***************************************************************************)
(* Model of wordle-pattern-maker (src/src/main.rs).                        *)
(*                                                                         *)
(* A character is a one-character string; a Rust String / &str / Vec<char> *)
(* is a sequence of characters.  The NUL character '\0' that               *)
(* calculate_pattern uses as its "used" sentinel is the value NUL.         *)
(* A text that the code walks with .lines() is the sequence of its lines.  *)
(***************************************************************************)
EXTENDS Integers, Sequences, FiniteSets

VARIABLES
    pc,             \* position of the running function
    solution,       \* config.solution
    pattern,        \* config.pattern, as its sequence of lines
    wordlist,       \* main: wordlist
    wi,             \* main: number of words of wordlist already indexed
    pattern_map,    \* main: pattern_map, a function signature -> bucket
    query_patterns, \* main: query_patterns
    qi,             \* main: number of queries already taken by the for loop
    patterns,       \* main: patterns (expansion of the current query)
    solutions,      \* main: solutions (of the current query)
    possible,       \* main: possible
    stdout,         \* what println! has written, one record per notice
    stderr,         \* what eprintln! / the panic handler has written
    guess,          \* calculate_pattern: argument guess
    sig,            \* a Vec<PatternState>: calculate_pattern's result, or the
                    \* signature that is rendered and parsed back
    text            \* a rendered pattern (query_pattern_to_string / Display)

vars == <<pc, solution, pattern, wordlist, wi, pattern_map, query_patterns, qi,
          patterns, solutions, possible, stdout, stderr, guess, sig, text>>

-----------------------------------------------------------------------------
(* Characters *)

NUL == "NUL"

LowerCase == <<"a", "b", "c", "g", "x", "y">>
UpperCase == <<"A", "B", "C", "G", "X", "Y">>
Whitespace == {" "}

\* the index of c in the sequence s, 0 when absent
IndexOf(s, c) ==
    IF \E k \in 1..Len(s) : s[k] = c
    THEN CHOOSE k \in 1..Len(s) : s[k] = c
    ELSE 0

\* char::to_ascii_uppercase
to_ascii_uppercase(c) ==
    IF IndexOf(LowerCase, c) # 0 THEN UpperCase[IndexOf(LowerCase, c)] ELSE c

\* char::to_lowercase, on the ASCII characters of the model
to_lowercase(c) ==
    IF IndexOf(UpperCase, c) # 0 THEN LowerCase[IndexOf(UpperCase, c)] ELSE c

\* char::is_ascii_alphabetic
is_ascii_alphabetic(c) == IndexOf(LowerCase, c) # 0 \/ IndexOf(UpperCase, c) # 0

\* str::trim: drop the leading and the trailing whitespace
RECURSIVE trim_start(_)
trim_start(s) ==
    IF s # <<>> /\ Head(s) \in Whitespace THEN trim_start(Tail(s)) ELSE s

RECURSIVE trim_end(_)
trim_end(s) ==
    IF s # <<>> /\ s[Len(s)] \in Whitespace
    THEN trim_end(SubSeq(s, 1, Len(s) - 1))
    ELSE s

trim(s) == trim_end(trim_start(s))

-----------------------------------------------------------------------------
(* enum PatternState, enum QueryPatternState *)

Green == "Green"
Yellow == "Yellow"
Grey == "Grey"
PatternState == {Green, Yellow, Grey}

\* the value that stands for a panic!() unwinding out of a conversion
PanicState == "panic"

Base(state) == [kind |-> "Base", state |-> state]
AnyValid == [kind |-> "AnyValid"]
Any == [kind |-> "Any"]
QueryPatternState == {Base(s) : s \in PatternState} \cup {AnyValid, Any}
PanicQuery == [kind |-> "panic"]

\* impl From<char> for PatternState
PatternState_from(c) ==
    CASE to_ascii_uppercase(c) = "G" -> Green
      [] to_ascii_uppercase(c) = "Y" -> Yellow
      [] to_ascii_uppercase(c) = "X" -> Grey
      [] OTHER -> PanicState

\* PatternState_fmt with the Grey arm writing the Yellow arm's letter
PatternState_fmt_GreyAsYellow(state) ==
    CASE state = Green -> "G"
      [] state = Yellow -> "Y"
      [] state = Grey -> "Y"

\* impl fmt::Display for PatternState
PatternState_fmt(state) ==
    CASE state = Green -> "G"
      [] state = Yellow -> "Y"
      [] state = Grey -> "X"

\* impl From<char> for QueryPatternState
QueryPatternState_from(c) ==
    CASE to_ascii_uppercase(c) = "?" -> AnyValid
      [] to_ascii_uppercase(c) = "*" -> Any
      [] OTHER ->
            IF PatternState_from(to_ascii_uppercase(c)) = PanicState
            THEN PanicQuery
            ELSE Base(PatternState_from(to_ascii_uppercase(c)))

\* impl fmt::Display for QueryPatternState
QueryPatternState_fmt(q) ==
    CASE q.kind = "Base" -> PatternState_fmt(q.state)
      [] q.kind = "AnyValid" -> "?"
      [] q.kind = "Any" -> "*"

\* possible_states with the AnyValid arm admitting Grey as well
possible_states_AnyValidAll(q) ==
    CASE q.kind = "Base" -> <<q.state>>
      [] q.kind = "AnyValid" -> <<Green, Yellow, Grey>>
      [] q.kind = "Any" -> <<Green, Yellow, Grey>>

\* QueryPatternState::possible_states
possible_states(q) ==
    CASE q.kind = "Base" -> <<q.state>>
      [] q.kind = "AnyValid" -> <<Green, Yellow>>
      [] q.kind = "Any" -> <<Green, Yellow, Grey>>

\* query_pattern_to_string
query_pattern_to_string(q) == [i \in 1..Len(q) |-> QueryPatternState_fmt(q[i])]

-----------------------------------------------------------------------------
(* calculate_pattern *)

\* Iterator::position: the first index holding c, 0 for None
position(chars, c) ==
    IF \E k \in 1..Len(chars) : chars[k] = c
    THEN CHOOSE k \in 1..Len(chars) :
            chars[k] = c /\ \A j \in 1..(k - 1) : chars[j] # c
    ELSE 0

\* the first loop without "solution_chars[i] = '\0'"
RECURSIVE FirstPass_KeepsSolution(_, _, _)
FirstPass_KeepsSolution(i, word_len, st) ==
    IF i > word_len THEN st
    ELSE IF st.guess_chars[i] = st.solution_chars[i]
    THEN FirstPass_KeepsSolution(i + 1, word_len,
            [pattern |-> [st.pattern EXCEPT ![i] = Green],
             solution_chars |-> st.solution_chars,
             guess_chars |-> [st.guess_chars EXCEPT ![i] = NUL]])
    ELSE FirstPass_KeepsSolution(i + 1, word_len, st)

\* the first loop (for i in 0..word_len), from index i on; st holds the locals
\* pattern, solution_chars and guess_chars
RECURSIVE FirstPass(_, _, _)
FirstPass(i, word_len, st) ==
    IF i > word_len THEN st
    ELSE IF st.guess_chars[i] = st.solution_chars[i]
    THEN FirstPass(i + 1, word_len,
            [pattern |-> [st.pattern EXCEPT ![i] = Green],
             solution_chars |-> [st.solution_chars EXCEPT ![i] = NUL],
             guess_chars |-> [st.guess_chars EXCEPT ![i] = NUL]])
    ELSE FirstPass(i + 1, word_len, st)

\* the second loop without "solution_chars[pos] = '\0'"
RECURSIVE SecondPass_NoConsume(_, _, _)
SecondPass_NoConsume(i, word_len, st) ==
    IF i > word_len THEN st
    ELSE IF st.guess_chars[i] # NUL
            /\ position(st.solution_chars, st.guess_chars[i]) # 0
    THEN SecondPass_NoConsume(i + 1, word_len,
            [pattern |-> [st.pattern EXCEPT ![i] = Yellow],
             solution_chars |-> st.solution_chars,
             guess_chars |-> st.guess_chars])
    ELSE SecondPass_NoConsume(i + 1, word_len, st)

\* the second loop, from index i on
RECURSIVE SecondPass(_, _, _)
SecondPass(i, word_len, st) ==
    IF i > word_len THEN st
    ELSE IF st.guess_chars[i] # NUL
            /\ position(st.solution_chars, st.guess_chars[i]) # 0
    THEN SecondPass(i + 1, word_len,
            [pattern |-> [st.pattern EXCEPT ![i] = Yellow],
             solution_chars |->
                [st.solution_chars EXCEPT
                    ![position(st.solution_chars, st.guess_chars[i])] = NUL],
             guess_chars |-> st.guess_chars])
    ELSE SecondPass(i + 1, word_len, st)

\* calculate_pattern with the first loop starting one index late
calculate_pattern_FirstLoopLate(g, s) ==
    SecondPass(1, Len(s),
        FirstPass(2, Len(s),
            [pattern |-> [i \in 1..Len(s) |-> Grey],
             solution_chars |-> s,
             guess_chars |-> g])).pattern

calculate_pattern(g, s) ==
    SecondPass(1, Len(s),
        FirstPass(1, Len(s),
            [pattern |-> [i \in 1..Len(s) |-> Grey],
             solution_chars |-> s,
             guess_chars |-> g])).pattern

-----------------------------------------------------------------------------
(* expand_query_pattern *)

\* the two inner loops nested the other way round: state-major
Extend_StateMajor(results, states) ==
    [k \in 1..(Len(results) * Len(states)) |->
        Append(results[((k - 1) % Len(results)) + 1],
               states[((k - 1) \div Len(results)) + 1])]

\* the two inner loops: every result extended by every possible state,
\* result-major
Extend(results, states) ==
    [k \in 1..(Len(results) * Len(states)) |->
        Append(results[((k - 1) \div Len(states)) + 1],
               states[((k - 1) % Len(states)) + 1])]

\* the outer loop, from query state i on
RECURSIVE ExpandFrom(_, _, _)
ExpandFrom(i, q, results) ==
    IF i > Len(q) THEN results
    ELSE ExpandFrom(i + 1, q, Extend(results, possible_states(q[i])))

expand_query_pattern(q) == ExpandFrom(1, q, <<<<>>>>)

-----------------------------------------------------------------------------
(* load_wordlist, parse_query_pattern *)

\* String::to_lowercase
str_to_lowercase(s) == [i \in 1..Len(s) |-> to_lowercase(s[i])]

\* the filter closure of load_wordlist
WordFilter(s, word_length) ==
    Len(s) = word_length /\ \A i \in 1..Len(s) : is_ascii_alphabetic(s[i])

\* load_wordlist on a file that could be read; lines is content.lines()
load_wordlist(lines, word_length) ==
    LET KeepWord(s) == WordFilter(s, word_length)
    IN SelectSeq([i \in 1..Len(lines) |-> str_to_lowercase(trim(lines[i]))],
                 KeepWord)

\* line.chars().map(QueryPatternState::from).collect()
parse_line(line) == [i \in 1..Len(line) |-> QueryPatternState_from(line[i])]

\* whether a conversion inside parse_line panics
LinePanics(line) == \E i \in 1..Len(line) : QueryPatternState_from(line[i]) = PanicQuery

NonEmpty(line) == line # <<>>

\* the lines parse_query_pattern keeps: trimmed, and not empty
QueryLines(pattern_str) ==
    SelectSeq([i \in 1..Len(pattern_str) |-> trim(pattern_str[i])], NonEmpty)

\* parse_query_pattern; pattern_str is the sequence of the text's lines
parse_query_pattern(pattern_str) ==
    [i \in 1..Len(QueryLines(pattern_str)) |-> parse_line(QueryLines(pattern_str)[i])]

\* whether parse_query_pattern panics: the collect() is eager, so a panic in
\* any line unwinds before any pattern is returned
ParsePanics(pattern_str) ==
    \E i \in 1..Len(QueryLines(pattern_str)) : LinePanics(QueryLines(pattern_str)[i])

-----------------------------------------------------------------------------
(* main *)

\* pattern_map.entry(pattern).or_default().push(word.clone())
ContainsKey(map, key) == \E k \in DOMAIN map : k = key

EntryPush(map, key, word) ==
    [k \in DOMAIN map \cup {key} |->
        IF k = key
        THEN (IF ContainsKey(map, key) THEN Append(map[key], word) ELSE <<word>>)
        ELSE map[k]]

\* pattern_map.get(&pattern): the bucket, <<>> for None
MapGet(map, key) == IF ContainsKey(map, key) THEN map[key] ELSE <<>>

\* the loop over patterns of main, from pattern i on: the buckets of the
\* patterns that pattern_map holds, in the order of pats
RECURSIVE Collect(_, _, _)
Collect(i, pats, map) ==
    IF i > Len(pats) THEN <<>>
    ELSE MapGet(map, pats[i]) \o Collect(i + 1, pats, map)

\* the file system's answers to fs::read_to_string
ReadErr == [ok |-> FALSE]
ReadOk(lines) == [ok |-> TRUE, lines |-> lines]

EmptyMap == [k \in {} |-> <<>>]

\* main, lines 106-117: load the word list, return on an error or an empty list
LoadWordlist(files) ==
    /\ pc = "load"
    /\ \E file \in files :
        IF ~file.ok
        THEN /\ stderr' = Append(stderr, "Failed to load wordlist")
             /\ pc' = "returned_early"
             /\ UNCHANGED wordlist
        ELSE /\ wordlist' = load_wordlist(file.lines, Len(solution))
             /\ IF wordlist' = <<>>
                THEN /\ stderr' = Append(stderr, "No words found in wordlist.")
                     /\ pc' = "returned_early"
                ELSE /\ pc' = "index"
                     /\ UNCHANGED stderr
    /\ UNCHANGED <<solution, pattern, wi, pattern_map, query_patterns, qi,
                   patterns, solutions, possible, stdout, guess, sig, text>>

\* main, lines 121-124: one iteration of the loop over the word list
IndexWord ==
    /\ pc = "index"
    /\ wi < Len(wordlist)
    /\ pattern_map' = EntryPush(pattern_map,
                                calculate_pattern(wordlist[wi + 1], solution),
                                wordlist[wi + 1])
    /\ wi' = wi + 1
    /\ pc' = IF wi' = Len(wordlist) THEN "parse" ELSE "index"
    /\ UNCHANGED <<solution, pattern, wordlist, query_patterns, qi, patterns,
                   solutions, possible, stdout, stderr, guess, sig, text>>

\* main, lines 127-128: parse the whole pattern block; a panic ends the process
ParseQueryPattern ==
    /\ pc = "parse"
    /\ IF ParsePanics(pattern)
       THEN /\ stderr' = Append(stderr, "Invalid pattern character")
            /\ pc' = "panicked"
            /\ UNCHANGED <<query_patterns, possible>>
       ELSE /\ query_patterns' = parse_query_pattern(pattern)
            /\ possible' = TRUE
            /\ pc' = "query"
            /\ UNCHANGED stderr
    /\ UNCHANGED <<solution, pattern, wordlist, wi, pattern_map, qi, patterns,
                   solutions, stdout, guess, sig, text>>

\* main, lines 129-139: take the next query, expand it and collect its matches
ResolveQuery ==
    /\ pc = "query"
    /\ qi < Len(query_patterns)
    /\ patterns' = expand_query_pattern(query_patterns[qi + 1])
    /\ solutions' = Collect(1, expand_query_pattern(query_patterns[qi + 1]),
                            pattern_map)
    /\ pc' = "report"
    /\ UNCHANGED <<solution, pattern, wordlist, wi, pattern_map, query_patterns,
                   qi, possible, stdout, stderr, guess, sig, text>>

\* ReportQuery without "possible = false"
ReportQuery_KeepsPossible ==
    /\ pc = "report"
    /\ IF Len(solutions) > 0
       THEN stdout' = Append(stdout,
                    [kind |-> "possible",
                     pattern |-> query_pattern_to_string(query_patterns[qi + 1]),
                     first |-> solutions[1],
                     others |-> Len(solutions) - 1])
       ELSE stdout' = Append(stdout,
                    [kind |-> "none",
                     pattern |-> query_pattern_to_string(query_patterns[qi + 1])])
    /\ qi' = qi + 1
    /\ pc' = "query"
    /\ UNCHANGED <<solution, pattern, wordlist, wi, pattern_map, query_patterns,
                   patterns, solutions, possible, stderr, guess, sig, text>>

\* main, lines 141-158: report the current query
ReportQuery ==
    /\ pc = "report"
    /\ IF Len(solutions) > 0
       THEN /\ stdout' = Append(stdout,
                    [kind |-> "possible",
                     pattern |-> query_pattern_to_string(query_patterns[qi + 1]),
                     first |-> solutions[1],
                     others |-> Len(solutions) - 1])
            /\ UNCHANGED possible
       ELSE /\ stdout' = Append(stdout,
                    [kind |-> "none",
                     pattern |-> query_pattern_to_string(query_patterns[qi + 1])])
            /\ possible' = FALSE
    /\ qi' = qi + 1
    /\ pc' = "query"
    /\ UNCHANGED <<solution, pattern, wordlist, wi, pattern_map, query_patterns,
                   patterns, solutions, stderr, guess, sig, text>>

\* main, lines 161-164: after the loop, the summary notice
Finish ==
    /\ pc = "query"
    /\ qi = Len(query_patterns)
    /\ stdout' = IF ~possible THEN Append(stdout, [kind |-> "summary"]) ELSE stdout
    /\ pc' = "done"
    /\ UNCHANGED <<solution, pattern, wordlist, wi, pattern_map, query_patterns,
                   qi, patterns, solutions, possible, stderr, guess, sig, text>>

\* the locals of main before it runs
MainInit ==
    /\ wordlist = <<>>
    /\ wi = 0
    /\ pattern_map = EmptyMap
    /\ query_patterns = <<>>
    /\ qi = 0
    /\ patterns = <<>>
    /\ solutions = <<>>
    /\ possible = TRUE
    /\ stdout = <<>>
    /\ stderr = <<>>

-----------------------------------------------------------------------------
(* The functions called on their own *)

\* a call of calculate_pattern(guess, solution)
CalculatePattern ==
    /\ pc = "calculate_pattern"
    /\ sig' = calculate_pattern(guess, solution)
    /\ pc' = "returned"
    /\ UNCHANGED <<solution, pattern, wordlist, wi, pattern_map, query_patterns,
                   qi, patterns, solutions, possible, stdout, stderr, guess, text>>

\* a call of expand_query_pattern(query_patterns[1])
Expand ==
    /\ pc = "expand"
    /\ patterns' = expand_query_pattern(query_patterns[1])
    /\ pc' = "expanded"
    /\ UNCHANGED <<solution, pattern, wordlist, wi, pattern_map, query_patterns,
                   qi, solutions, possible, stdout, stderr, guess, sig, text>>

\* sig written with Display, one character per PatternState
Render ==
    /\ pc = "render"
    /\ text' = [i \in 1..Len(sig) |-> PatternState_fmt(sig[i])]
    /\ pc' = "reparse"
    /\ UNCHANGED <<solution, pattern, wordlist, wi, pattern_map, query_patterns,
                   qi, patterns, solutions, possible, stdout, stderr, guess, sig>>

\* the rendered text read back as a query pattern (parse_query_pattern's
\* closure on one line)
Reparse ==
    /\ pc = "reparse"
    /\ IF LinePanics(text)
       THEN /\ pc' = "panicked"
            /\ UNCHANGED query_patterns
       ELSE /\ query_patterns' = <<parse_line(text)>>
            /\ pc' = "expand"
    /\ UNCHANGED <<solution, pattern, wordlist, wi, pattern_map, qi, patterns,
                   solutions, possible, stdout, stderr, guess, sig, text>>

-----------------------------------------------------------------------------
(* Inputs *)

MaxWordLen == 5
MaxPatternLen == 5
MaxLines == 3
MaxQueries == 3

SeqsUpTo(S, n) == UNION {[1..k -> S] : k \in 0..n}

Letters == {"a", "b", "c"}
Words(n) == [1..n -> Letters]

\* config.solution, in the runs of main
Solutions == {<<"a", "b", "a">>, <<"a", "a", "b">>}

\* lines of a word-list file: words, an upper-case and a padded spelling of
\* two of them, a short and a long line, a line with a digit, a blank line
FileLines ==
    {<<"a", "b", "a">>, <<"b", "a", "a">>, <<"a", "b", "b">>, <<"b", "b", "c">>,
     <<"A", "b", "A">>, <<" ", "b", "a", "a", " ">>,
     <<"a", "b">>, <<"a", "b", "a", "b">>, <<"a", "1", "a">>, <<>>}

Files == {ReadOk(ls) : ls \in SeqsUpTo(FileLines, MaxLines)} \cup {ReadErr}

SmallFiles ==
    {ReadOk(<<<<"a", "b", "a">>, <<"b", "a", "a">>, <<"a", "a", "b">>>>),
     ReadOk(<<<<"b", "b", "c">>, <<"A", "b", "A">>>>),
     ReadOk(<<<<"a", "b">>>>),
     ReadErr}

QueryChars == {"G", "Y", "X", "?", "*"}

\* lines of config.pattern: every pattern of the solution's length, and a
\* lower-case, a padded, a blank, a malformed, a short and a long line
OddQueryLines ==
    {<<"g", "y", "x">>, <<" ", "*", "X", "*", " ">>, <<" ">>,
     <<"G", "a", "G">>, <<"G", "G">>, <<"*", "*", "*", "*">>}

AllQueryLines(n) == [1..n -> QueryChars] \cup OddQueryLines

RunQueryLines ==
    {<<"*", "*", "*">>, <<"G", "G", "G">>, <<"X", "X", "X">>, <<"?", "Y", "*">>,
     <<" ">>, <<"G", "a", "G">>, <<"G", "G">>, <<"*", "*", "*", "*">>}

OtherInit ==
    /\ guess = <<>>
    /\ sig = <<>>
    /\ text = <<>>

-----------------------------------------------------------------------------
(* Specifications *)

\* main, on a few word lists and every pattern block of up to MaxQueries lines
Init ==
    /\ pc = "load"
    /\ solution \in Solutions
    /\ pattern \in SeqsUpTo(RunQueryLines, MaxQueries)
    /\ MainInit
    /\ OtherInit

Next ==
    \/ LoadWordlist(SmallFiles)
    \/ IndexWord
    \/ ParseQueryPattern
    \/ ResolveQuery
    \/ ReportQuery
    \/ Finish

Spec == Init /\ [][Next]_vars

\* main, on every word-list file of up to MaxLines lines and one query line
InitIndex ==
    /\ pc = "load"
    /\ solution \in Solutions
    /\ pattern \in {<<l>> : l \in AllQueryLines(Len(solution))}
    /\ MainInit
    /\ OtherInit

NextIndex ==
    \/ LoadWordlist(Files)
    \/ IndexWord
    \/ ParseQueryPattern
    \/ ResolveQuery
    \/ ReportQuery
    \/ Finish

SpecIndex == InitIndex /\ [][NextIndex]_vars

\* calculate_pattern on every pair of words of one length, up to MaxWordLen
InitCalc ==
    /\ pc = "calculate_pattern"
    /\ \E n \in 1..MaxWordLen : guess \in Words(n) /\ solution \in Words(n)
    /\ sig = <<>>
    /\ text = <<>>
    /\ pattern = <<>>
    /\ MainInit

NextCalc == CalculatePattern

SpecCalc == InitCalc /\ [][NextCalc]_vars

\* expand_query_pattern on every query pattern up to MaxPatternLen
InitExpand ==
    /\ pc = "expand"
    /\ solution = <<>>
    /\ pattern = <<>>
    /\ wordlist = <<>>
    /\ wi = 0
    /\ pattern_map = EmptyMap
    /\ qi = 0
    /\ patterns = <<>>
    /\ solutions = <<>>
    /\ possible = TRUE
    /\ stdout = <<>>
    /\ stderr = <<>>
    /\ OtherInit
    /\ query_patterns \in {<<q>> : q \in SeqsUpTo(QueryPatternState, MaxPatternLen)}

NextExpand == Expand

SpecExpand == InitExpand /\ [][NextExpand]_vars

\* every signature up to MaxPatternLen rendered, parsed back and expanded
InitRoundTrip ==
    /\ pc = "render"
    /\ solution = <<>>
    /\ pattern = <<>>
    /\ MainInit
    /\ guess = <<>>
    /\ text = <<>>
    /\ sig \in SeqsUpTo(PatternState, MaxPatternLen)

NextRoundTrip == Render \/ Reparse \/ Expand

SpecRoundTrip == InitRoundTrip /\ [][NextRoundTrip]_vars

-----------------------------------------------------------------------------
(* Properties *)

\* the states a query symbol admits
Admissible(q) ==
    CASE q = Base(Green) -> {Green}
      [] q = Base(Yellow) -> {Yellow}
      [] q = Base(Grey) -> {Grey}
      [] q = AnyValid -> {Green, Yellow}
      [] q = Any -> {Green, Yellow, Grey}

\* signature s matches query pattern q position by position
Matches(s, q) ==
    Len(s) = Len(q) /\ \A i \in 1..Len(q) : s[i] \in Admissible(q[i])

Digit(state) == CASE state = Green -> 0 [] state = Yellow -> 1 [] state = Grey -> 2

\* the place of signature s in the order "leftmost position most significant,
\* Green before Yellow before Grey": s precedes t
Precedes(s, t) ==
    \E i \in 1..Len(s) :
        /\ Digit(s[i]) < Digit(t[i])
        /\ \A j \in 1..(i - 1) : s[j] = t[j]

\* the words of the list tested one by one against query q: their indices
MatchingIndices(q) ==
    {i \in 1..Len(wordlist) : Matches(calculate_pattern(wordlist[i], solution), q)}

\* index i comes before index j: by signature, then by place in the list
Before(i, j) ==
    LET si == calculate_pattern(wordlist[i], solution)
        sj == calculate_pattern(wordlist[j], solution)
    IN Precedes(si, sj) \/ (si = sj /\ i < j)

\* the matching words in that order
DirectResult(q) ==
    [p \in 1..Cardinality(MatchingIndices(q)) |->
        wordlist[CHOOSE i \in MatchingIndices(q) :
            Cardinality({j \in MatchingIndices(q) : Before(j, i)}) = p - 1]]

C1_DuplicateLetterLaw ==
    pc = "returned" =>
        \A c \in Letters :
            Cardinality({i \in 1..Len(guess) :
                            guess[i] = c /\ sig[i] \in {Green, Yellow}})
                <= Cardinality({i \in 1..Len(solution) : solution[i] = c})

\* a guess that repeats a letter more often than the solution holds it, with
\* every occurrence of the solution used up by a mark
C1_Witness ==
    /\ pc = "returned"
    /\ \E c \in Letters :
        /\ Cardinality({i \in 1..Len(guess) : guess[i] = c})
            > Cardinality({i \in 1..Len(solution) : solution[i] = c})
        /\ Cardinality({i \in 1..Len(solution) : solution[i] = c})
            = Cardinality({i \in 1..Len(guess) :
                            guess[i] = c /\ sig[i] \in {Green, Yellow}})
        /\ \E i, j \in 1..Len(guess) :
            guess[i] = c /\ guess[j] = c /\ sig[i] = Yellow /\ sig[j] = Grey

\* C8: a word guessed against itself is Green at every position
C8_Reflexivity ==
    (pc = "returned" /\ guess = solution)
        => sig = [i \in 1..Len(solution) |-> Green]

\* the solution guessed against itself, a word that repeats a letter
C8_Witness ==
    /\ pc = "returned"
    /\ guess = solution
    /\ \E i, j \in 1..Len(solution) : i # j /\ solution[i] = solution[j]
    /\ \E i, j \in 1..Len(solution) : solution[i] # solution[j]

\* the remaining-count reference: Green where the letters agree; otherwise
\* Yellow while the earlier non-Green positions of the guess holding the
\* letter are fewer than the non-Green positions of the solution holding it
RemainingCount(g, s) ==
    [i \in 1..Len(s) |->
        IF g[i] = s[i] THEN Green
        ELSE IF Cardinality({j \in 1..(i - 1) : g[j] # s[j] /\ g[j] = g[i]})
                < Cardinality({k \in 1..Len(s) : g[k] # s[k] /\ s[k] = g[i]})
        THEN Yellow
        ELSE Grey]

\* C9: on words of letters, calculate_pattern returns what the
\* remaining-count reference returns
C9_EqualsRemainingCount ==
    pc = "returned" => sig = RemainingCount(guess, solution)

\* a result with a Green, a Yellow and a Grey mark, the Grey one on a letter
\* the solution holds
C9_Witness ==
    /\ pc = "returned"
    /\ \E i, j, k \in 1..Len(guess) :
        /\ sig[i] = Green /\ sig[j] = Yellow /\ sig[k] = Grey
        /\ \E m \in 1..Len(solution) : solution[m] = guess[k]

RECURSIVE Pow(_, _)
Pow(b, n) == IF n = 0 THEN 1 ELSE b * Pow(b, n - 1)

\* C3: the expansion of a query pattern of length L holds, without
\* duplicates, exactly the signatures of length L admissible at every
\* position; for an all-'*' pattern these are 3^L signatures
C3_ExpandExact ==
    pc = "expanded" =>
        LET q == query_patterns[1]
        IN /\ \A i, j \in 1..Len(patterns) : patterns[i] = patterns[j] => i = j
           /\ {patterns[i] : i \in 1..Len(patterns)}
                = {s \in [1..Len(q) -> PatternState] : Matches(s, q)}
           /\ (\A i \in 1..Len(q) : q[i] = Any)
                => Len(patterns) = Pow(Cardinality(PatternState), Len(q))

\* an expanded pattern with a literal symbol, a '?' and a '*'
C3_Witness ==
    /\ pc = "expanded"
    /\ \E i, j, k \in 1..Len(query_patterns[1]) :
        /\ query_patterns[1][i] = AnyValid
        /\ query_patterns[1][j] = Any
        /\ query_patterns[1][k] = Base(Grey)
    /\ Len(patterns) > 1

\* C6: a signature rendered to G/Y/X, parsed as a query pattern and expanded
\* gives that one signature; the parsed pattern is the literal mapping
C6_RoundTrip ==
    /\ pc # "panicked"
    /\ pc \in {"expand", "expanded"}
        => query_patterns[1] = [i \in 1..Len(sig) |-> Base(sig[i])]
    /\ pc = "expanded" => patterns = <<sig>>

\* a signature with all three states, rendered, parsed and expanded
C6_Witness ==
    /\ pc = "expanded"
    /\ \A st \in PatternState : \E i \in 1..Len(sig) : sig[i] = st
    /\ text # <<>>

Occurrences(w) ==
    {<<k, i>> \in (DOMAIN pattern_map) \X (1..Len(wordlist)) :
        i \in 1..Len(pattern_map[k]) /\ pattern_map[k][i] = w}

\* C2: once the index is built, every word of the loaded list is in exactly
\* one bucket, exactly once; a resolved sequence holds no word twice
C2_IndexedOnce ==
    /\ pc \in {"parse", "panicked", "query", "report", "done"}
        => \A n \in 1..Len(wordlist) :
                Cardinality(Occurrences(wordlist[n])) = 1
    /\ pc = "report"
        => \A i, j \in 1..Len(solutions) : solutions[i] = solutions[j] => i = j

\* a query line of the alphabet and of the solution's length
WellFormed(line) == ~LinePanics(line) /\ Len(line) = Len(solution)

Malformed(line) == LinePanics(line)

\* what the run reports for a well-formed query line
ReportOf(line) ==
    LET q == parse_line(line)
        found == Collect(1, expand_query_pattern(q), pattern_map)
    IN IF Len(found) > 0
       THEN [kind |-> "possible", pattern |-> query_pattern_to_string(q),
             first |-> found[1], others |-> Len(found) - 1]
       ELSE [kind |-> "none", pattern |-> query_pattern_to_string(q)]

\* a report about a pattern of the solution's length
ReportOfLength(r) == r.kind # "summary" /\ Len(r.pattern) = Len(solution)

\* C4: when the run has ended, every well-formed query line has been
\* reported, in order, with the result it has without the malformed lines, and
\* every malformed line has an error of its own
C4_MalformedLineIsolated ==
    pc \in {"done", "panicked"} =>
        LET good == SelectSeq(QueryLines(pattern), WellFormed)
            bad == SelectSeq(QueryLines(pattern), Malformed)
            reports == SelectSeq(stdout, ReportOfLength)
        IN /\ Len(reports) = Len(good)
           /\ \A k \in 1..Len(good) : reports[k] = ReportOf(good[k])
           /\ Len(stderr) >= Len(bad)

\* C5: a query pattern whose length differs from the solution's is neither
\* expanded and looked up nor reported as "no possible solutions"
C5_LengthMismatchRejected ==
    /\ pc = "report" => Len(query_patterns[qi + 1]) = Len(solution)
    /\ \A k \in 1..Len(stdout) :
        stdout[k].kind = "none" => Len(stdout[k].pattern) = Len(solution)

\* C7: the query patterns are reported one by one in input order, "possible"
\* when the resolved sequence is not empty and "none" when it is; the summary
\* is written after all of them, if and only if one of them had no match
C7_RunReporting ==
    /\ pc \in {"load", "index", "parse", "returned_early", "panicked"}
        => stdout = <<>>
    /\ pc \in {"query", "report"} => Len(stdout) = qi
    /\ pc \in {"query", "report", "done"}
        => /\ Len(query_patterns) = Len(QueryLines(pattern))
           /\ qi <= Len(query_patterns)
           /\ \A k \in 1..qi :
                /\ k <= Len(stdout)
                /\ stdout[k].kind \in {"possible", "none"}
                /\ stdout[k].pattern
                    = query_pattern_to_string(parse_line(QueryLines(pattern)[k]))
                /\ stdout[k].kind = "possible"
                    <=> Collect(1, expand_query_pattern(query_patterns[k]),
                                pattern_map) # <<>>
    /\ pc = "done"
        => /\ qi = Len(query_patterns)
           /\ IF \E k \in 1..qi : stdout[k].kind = "none"
              THEN /\ Len(stdout) = qi + 1
                   /\ stdout[qi + 1].kind = "summary"
              ELSE Len(stdout) = qi
    /\ \A k \in 1..Len(stdout) : stdout[k].kind = "summary" => pc = "done"

\* a finished run that reported a pattern with matches and one without, and
\* wrote the summary
C7_Witness ==
    /\ pc = "done"
    /\ Len(stdout) >= 3
    /\ stdout[Len(stdout)].kind = "summary"
    /\ stdout[1].kind = "possible"
    /\ stdout[2].kind = "none"

====
